---- MODULE Spec2Model ----
(***************************************************************************)
(* A model of status-line.py: the tmux status line that samples OS         *)
(* counters twice, one interval apart, and bridges invocations through a   *)
(* per-session JSON state file.                                            *)
(*                                                                         *)
(* Python values read back from JSON are dynamically typed, so they are    *)
(* modelled as tagged values of one shape (Num, Str, Obj, Arr, Null).      *)
(* Numbers are integers: wall-clock time is counted in ticks, and a rate   *)
(* is an exact fraction [num, den] (floating-point rounding is not         *)
(* modelled).                                                              *)
(***************************************************************************)
EXTENDS Integers, Sequences, FiniteSets, TLC

(***************************************************************************)
(* Bounds of the model.                                                    *)
(***************************************************************************)
\* the wall clock runs from 0 to MaxTime
MaxTime == 3
\* the --interval argument, in ticks
Interval == 1
\* invocations started per process slot
MaxRuns == 1
\* counters of the pure-function inputs range over 0..MaxCounter
MaxCounter == 1
\* snapshot times of the pure-function inputs range over 0..MaxStamp
MaxStamp == 2
\* TMUX values of the path inputs have at most MaxLen characters
MaxLen == 2
\* thresholds and values of the colour inputs range over 0..MaxTenths tenths
MaxTenths == 9

(***************************************************************************)
(* Python values.                                                          *)
(***************************************************************************)
Num(n) == [t |-> "num", n |-> n, s |-> "", m |-> <<>>]
Str(s) == [t |-> "str", n |-> 0, s |-> s, m |-> <<>>]
\* a dict: its items in insertion order, each [k |-> key, v |-> value]
Obj(m) == [t |-> "obj", n |-> 0, s |-> "", m |-> m]
\* a list: its elements, each [k |-> "", v |-> value]
Arr(m) == [t |-> "arr", n |-> 0, s |-> "", m |-> m]
Null == [t |-> "null", n |-> 0, s |-> "", m |-> <<>>]

Item(k, v) == [k |-> k, v |-> v]

Keys(m) == {m[i].k : i \in 1..Len(m)}

\* d[k] for a key the dict holds
Get(m, k) == m[CHOOSE i \in 1..Len(m) : m[i].k = k].v

\* d[k] = v: a new key is appended, a known key keeps its place
DictSet(m, k, v) ==
    IF k \in Keys(m)
    THEN [i \in 1..Len(m) |-> IF m[i].k = k THEN Item(k, v) ELSE m[i]]
    ELSE Append(m, Item(k, v))

(***************************************************************************)
(* File contents are sequences of JSON tokens; "bad" is any character no   *)
(* JSON token starts with.                                                 *)
(***************************************************************************)
Tok(t, s, n) == [t |-> t, s |-> s, n |-> n]
P(c) == Tok(c, "", 0)
TStr(s) == Tok("str", s, 0)
TNum(n) == Tok("num", "", n)

\* the absent file
NoFile == <<P("absent")>>

\* json.dumps: the tokens of a value
RECURSIVE Tokens(_)
RECURSIVE MemberTokens(_, _)
MemberTokens(m, i) ==
    IF i > Len(m) THEN <<>>
    ELSE (IF i > 1 THEN <<P(",")>> ELSE <<>>)
         \o <<TStr(m[i].k), P(":")>> \o Tokens(m[i].v) \o MemberTokens(m, i + 1)

RECURSIVE ElemTokens(_, _)
ElemTokens(m, i) ==
    IF i > Len(m) THEN <<>>
    ELSE (IF i > 1 THEN <<P(",")>> ELSE <<>>)
         \o Tokens(m[i].v) \o ElemTokens(m, i + 1)

Tokens(v) ==
    CASE v.t = "num" -> <<TNum(v.n)>>
      [] v.t = "str" -> <<TStr(v.s)>>
      [] v.t = "obj" -> <<P("{")>> \o MemberTokens(v.m, 1) \o <<P("}")>>
      [] v.t = "arr" -> <<P("[")>> \o ElemTokens(v.m, 1) \o <<P("]")>>
      [] OTHER -> <<P("null")>>

\* json.loads: a recursive-descent parse; ok = FALSE is JSONDecodeError
ParseFail == [ok |-> FALSE, v |-> Null, i |-> 0]
ParseOk(v, i) == [ok |-> TRUE, v |-> v, i |-> i]

RECURSIVE ParseValue(_, _)
RECURSIVE ParseMembers(_, _, _)
RECURSIVE ParseElems(_, _, _)

ParseMembers(toks, i, acc) ==
    IF i + 2 > Len(toks) \/ toks[i].t # "str" \/ toks[i + 1].t # ":" THEN ParseFail
    ELSE LET r == ParseValue(toks, i + 2) IN
         IF ~r.ok \/ r.i > Len(toks) THEN ParseFail
         ELSE LET acc2 == DictSet(acc, toks[i].s, r.v) IN
              CASE toks[r.i].t = "," -> ParseMembers(toks, r.i + 1, acc2)
                [] toks[r.i].t = "}" -> ParseOk(Obj(acc2), r.i + 1)
                [] OTHER -> ParseFail

ParseElems(toks, i, acc) ==
    LET r == ParseValue(toks, i) IN
    IF ~r.ok \/ r.i > Len(toks) THEN ParseFail
    ELSE LET acc2 == Append(acc, Item("", r.v)) IN
         CASE toks[r.i].t = "," -> ParseElems(toks, r.i + 1, acc2)
           [] toks[r.i].t = "]" -> ParseOk(Arr(acc2), r.i + 1)
           [] OTHER -> ParseFail

ParseValue(toks, i) ==
    IF i > Len(toks) THEN ParseFail
    ELSE CASE toks[i].t = "num" -> ParseOk(Num(toks[i].n), i + 1)
           [] toks[i].t = "str" -> ParseOk(Str(toks[i].s), i + 1)
           [] toks[i].t = "null" -> ParseOk(Null, i + 1)
           [] toks[i].t = "{" ->
                IF i + 1 <= Len(toks) /\ toks[i + 1].t = "}"
                THEN ParseOk(Obj(<<>>), i + 2)
                ELSE ParseMembers(toks, i + 1, <<>>)
           [] toks[i].t = "[" ->
                IF i + 1 <= Len(toks) /\ toks[i + 1].t = "]"
                THEN ParseOk(Arr(<<>>), i + 2)
                ELSE ParseElems(toks, i + 1, <<>>)
           [] OTHER -> ParseFail

\* the whole text must be one value
Loads(toks) ==
    LET r == ParseValue(toks, 1) IN
    IF r.ok /\ r.i = Len(toks) + 1 THEN r ELSE ParseFail

(***************************************************************************)
(* _Snapshot: a record of six fields.  The dataclass checks no types, so a *)
(* field holds whatever Python value it was given.                         *)
(***************************************************************************)
Fields == {"time", "cpu_times", "disk_read", "disk_write", "net_sent", "net_recv"}

Snapshot(time, cpu, dr, dw, ns, nr) ==
    [time |-> time, cpu_times |-> cpu, disk_read |-> dr, disk_write |-> dw,
     net_sent |-> ns, net_recv |-> nr]

NoSnap == Snapshot(Null, Null, Null, Null, Null, Null)

\* dataclasses.asdict: the fields in declaration order
asdict(s) ==
    Obj(<<Item("time", s.time), Item("cpu_times", s.cpu_times),
          Item("disk_read", s.disk_read), Item("disk_write", s.disk_write),
          Item("net_sent", s.net_sent), Item("net_recv", s.net_recv)>>)

\* dumps(asdict(s2), ...) in _states
Dumps(s) == Tokens(asdict(s))

\* _Snapshot(**json): TypeError unless json is a dict of exactly the six fields
\* (with one star the fields would be the six keys themselves)
FromDictKeys(j) ==
    IF j.t = "obj" /\ Len(j.m) = Cardinality(Fields)
    THEN [err |-> "none",
          snap |-> Snapshot(Str(j.m[1].k), Str(j.m[2].k), Str(j.m[3].k), Str(j.m[4].k),
                            Str(j.m[5].k), Str(j.m[6].k))]
    ELSE [err |-> "TypeError", snap |-> NoSnap]
FromDict(j) ==
    IF j.t = "obj" /\ Keys(j.m) = Fields
    THEN [err |-> "none",
          snap |-> Snapshot(Get(j.m, "time"), Get(j.m, "cpu_times"),
                            Get(j.m, "disk_read"), Get(j.m, "disk_write"),
                            Get(j.m, "net_sent"), Get(j.m, "net_recv"))]
    ELSE [err |-> "TypeError", snap |-> NoSnap]

\* The try block of _load on the text read (or on the missing file):
\*   "snapshot"  the else branch: the Snapshot is returned
\*   "except"    FileNotFoundError or JSONDecodeError: unlink, return None
\*   "raise"     any other exception leaves _load
LoadOutcome(content) ==
    IF content = NoFile THEN [kind |-> "except", err |-> "FileNotFoundError", snap |-> NoSnap]
    ELSE LET r == Loads(content) IN
         IF ~r.ok THEN [kind |-> "except", err |-> "JSONDecodeError", snap |-> NoSnap]
         ELSE LET d == FromDict(r.v) IN
              IF d.err # "none" THEN [kind |-> "raise", err |-> d.err, snap |-> NoSnap]
              ELSE [kind |-> "snapshot", err |-> "none", snap |-> d.snap]

\* cpu_times()._asdict() of a reading whose counters stand at c
CpuReading(c) ==
    Obj(<<Item("user", Num(c)), Item("system", Num(c)), Item("idle", Num(2 * c)),
          Item("iowait", Num(0))>>)

\* _snap at wall-clock time t with the OS counters at c
Snap(t, c) == Snapshot(Num(t), CpuReading(c), Num(c), Num(c), Num(2 * c), Num(2 * c))

(***************************************************************************)
(* _measure and _cpu.  A rate is the exact fraction num / den, den > 0.    *)
(***************************************************************************)
Rat(n, d) == [num |-> n, den |-> d]
Zero == Rat(0, 1)
RatEq(a, b) == a.num * b.den = b.num * a.den
Max(a, b) == IF a >= b THEN a ELSE b
Min(a, b) == IF a <= b THEN a ELSE b

NoStats == [cpu |-> Zero, mem |-> Zero, disk_read |-> Zero, disk_write |-> Zero,
            net_sent |-> Zero, net_recv |-> Zero]

\* 1 / dt for dt # 0
TimeAdjust(dt) == IF dt > 0 THEN Rat(1, dt) ELSE Rat(-1, -dt)

\* max(0, v2 - v1)
ClampNone(v1, v2) == v2 - v1
Clamp(v1, v2) == Max(0, v2 - v1)

\* max(0, v2 - v1) * time_adjust
Rate(v1, v2, adj) == Rat(Clamp(v1, v2) * adj.num, adj.den)

\* the dict comprehension of _measure: zip pairs the items by position and
\* keeps the keys of s1
CpuDelta(m1, m2) ==
    [i \in 1..Min(Len(m1), Len(m2)) |-> Item(m1[i].k, Clamp(m1[i].v.n, m2[i].v.n))]

RECURSIVE SumDelta(_, _)
SumDelta(d, i) == IF i > Len(d) THEN 0 ELSE d[i].v + SumDelta(d, i + 1)

\* delta.get(k, 0)
GetOr0(d, k) == IF k \in Keys(d) THEN Get(d, k) ELSE 0

\* _cpu: busy / tot, 0 on ZeroDivisionError; delta["idle"] raises KeyError
Cpu(delta, linux) ==
    LET tot == SumDelta(delta, 1)
               - (IF linux THEN GetOr0(delta, "guest") + GetOr0(delta, "guest_nice") ELSE 0)
    IN IF "idle" \notin Keys(delta) THEN [err |-> "KeyError", v |-> Zero]
       ELSE LET busy == tot - Get(delta, "idle") - GetOr0(delta, "iowait") IN
            IF tot = 0 THEN [err |-> "none", v |-> Zero]
            ELSE [err |-> "none",
                  v |-> IF tot > 0 THEN Rat(busy, tot) ELSE Rat(-busy, -tot)]

\* the items zip reaches are numbers
AllNum(m, n) == \A i \in 1..Min(Len(m), n) : m[i].v.t = "num"

\* _measure(s1, s2) with virtual_memory() = mem and system() == "Linux" = linux
Measure(s1, s2, mem, linux) ==
    IF s1.time.t # "num" \/ s2.time.t # "num" THEN [err |-> "TypeError", stats |-> NoStats]
    ELSE IF s2.time.n = s1.time.n THEN [err |-> "ZeroDivisionError", stats |-> NoStats]
    ELSE IF s1.cpu_times.t # "obj" \/ s2.cpu_times.t # "obj"
         THEN [err |-> "AttributeError", stats |-> NoStats]
    ELSE IF ~AllNum(s1.cpu_times.m, Len(s2.cpu_times.m))
            \/ ~AllNum(s2.cpu_times.m, Len(s1.cpu_times.m))
         THEN [err |-> "TypeError", stats |-> NoStats]
    ELSE LET adj == TimeAdjust(s2.time.n - s1.time.n)
             cpu == Cpu(CpuDelta(s1.cpu_times.m, s2.cpu_times.m), linux)
         IN IF cpu.err # "none" THEN [err |-> cpu.err, stats |-> NoStats]
            ELSE IF mem.total = 0 THEN [err |-> "ZeroDivisionError", stats |-> NoStats]
            ELSE IF \E f \in {"disk_read", "disk_write", "net_sent", "net_recv"} :
                        s1[f].t # "num" \/ s2[f].t # "num"
                 THEN [err |-> "TypeError", stats |-> NoStats]
            ELSE [err |-> "none",
                  stats |->
                    [cpu |-> Rat(cpu.v.num * adj.num, cpu.v.den * adj.den),
                     mem |-> Rat((mem.total - mem.available) * adj.num, mem.total * adj.den),
                     disk_read |-> Rate(s1.disk_read.n, s2.disk_read.n, adj),
                     disk_write |-> Rate(s1.disk_write.n, s2.disk_write.n, adj),
                     net_sent |-> Rate(s1.net_sent.n, s2.net_sent.n, adj),
                     net_recv |-> Rate(s1.net_recv.n, s2.net_recv.n, adj)]]

(***************************************************************************)
(* The state: the wall clock, the state directory, and the invocations of  *)
(* one session that may overlap.                                           *)
(***************************************************************************)
VARIABLES
    clock,      \* time()
    dirExists,  \* the state directory exists
    file,       \* the content of the session file, or NoFile
    tmp,        \* per process: the content of its open temp file, or NoFile
    orphans,    \* temp files left in the state directory by ended invocations
    pc,         \* per process: where the invocation stands
    runs,       \* per process: invocations started
    s1, s2,     \* per process: the locals of _states
    wake,       \* per process: when its sleep ends
    out,        \* per process: the segments written to stdout
    \* history, read by the properties only
    cold,       \* per process: s1 came from _snap, not from _load
    diedAt,     \* per process: the step at which it was killed or raised
    didPersist, \* per process: its rename has happened
    persisted,  \* the Snapshot whose text is the session file, or NoSnap
    \* the harness of the pure-function specifications
    call, ret

protoVars == <<clock, dirExists, file, tmp, orphans, pc, runs, s1, s2, wake, out,
               cold, diedAt, didPersist, persisted>>
vars == <<clock, dirExists, file, tmp, orphans, pc, runs, s1, s2, wake, out,
          cold, diedAt, didPersist, persisted, call, ret>>

Procs == {1, 2}

NoCall == [fn |-> "none"]
NoRet == [fn |-> "none"]

Ended == {"idle", "done", "failed", "killed"}
DumpSteps == {"mkdir", "mktemp", "write", "writing", "rename"}
\* the steps at which the OS or psutil may raise
RaisePoints == {"snap1", "snap2"} \cup DumpSteps

\* virtual_memory() in the protocol
MemReading == [total |-> 2, available |-> 1]

(***************************************************************************)
(* The session files an installation may start from.                       *)
(***************************************************************************)
ValidFile == Dumps(Snap(0, 0))
TruncatedFile == SubSeq(ValidFile, 1, Len(ValidFile) - 1)
NotJsonFile == <<P("bad")>>
MissingFieldFile == Tokens(Obj(<<Item("time", Num(0))>>))
NonObjectFile == Tokens(Arr(<<Item("", Num(0))>>))
BadTimeFile == Dumps(Snapshot(Str("x"), CpuReading(0), Num(0), Num(0), Num(0), Num(0)))
BadCounterFile == Dumps(Snapshot(Num(0), CpuReading(0), Str("x"), Num(0), Num(0), Num(0)))
\* a Snapshot of a later time than the clock shows (the clock was set back)
FutureFile == Dumps(Snap(MaxTime - Interval, 0))

InitFiles == {NoFile, ValidFile, TruncatedFile, NotJsonFile, MissingFieldFile,
              NonObjectFile, BadTimeFile, BadCounterFile, FutureFile}

HarnessIdle == call = NoCall /\ ret = NoRet

\* the clock and the state directory
FsInit(files) ==
    /\ clock = 0
    /\ file \in files
    /\ dirExists = (file # NoFile)
    /\ tmp = [p \in Procs |-> NoFile]
    /\ orphans = 0
    /\ persisted = LoadOutcome(file).snap

\* the processes, at pc0 with the newer Snapshots s20
ProcInit(pc0, s20) ==
    /\ pc = pc0
    /\ s2 = s20
    /\ runs = [p \in Procs |-> IF pc0[p] = "idle" THEN 0 ELSE 1]
    /\ s1 = [p \in Procs |-> NoSnap]
    /\ wake = [p \in Procs |-> 0]
    /\ out = [p \in Procs |-> <<>>]
    /\ cold = [p \in Procs |-> FALSE]
    /\ diedAt = [p \in Procs |-> "-"]
    /\ didPersist = [p \in Procs |-> FALSE]

ProtoInit(files) ==
    /\ FsInit(files)
    /\ ProcInit([p \in Procs |-> "idle"], [p \in Procs |-> NoSnap])

\* a session whose state file, if any, was written by an earlier invocation
Init == ProtoInit({NoFile, ValidFile}) /\ HarnessIdle

\* a session whose state file may hold anything
InitAny == ProtoInit(InitFiles) /\ HarnessIdle

(***************************************************************************)
(* The steps of one invocation.                                            *)
(***************************************************************************)
\* A temp file of an invocation that ends stays in the directory (delete=False).
LeaveTemp(p) ==
    /\ orphans' = IF tmp[p] = NoFile THEN orphans ELSE orphans + 1
    /\ tmp' = [tmp EXCEPT ![p] = NoFile]

\* The process ends: how is "done", "failed" (an exception left main) or
\* "killed"; its locals are gone, its temp file is not.
End(p, how, at) ==
    /\ pc' = [pc EXCEPT ![p] = how]
    /\ diedAt' = [diedAt EXCEPT ![p] = at]
    /\ s1' = [s1 EXCEPT ![p] = NoSnap]
    /\ s2' = [s2 EXCEPT ![p] = NoSnap]
    /\ wake' = [wake EXCEPT ![p] = 0]
    /\ cold' = [cold EXCEPT ![p] = FALSE]
    /\ LeaveTemp(p)

\* main, _parse_args, the first next() of _stat_lines, _ssh
Start(p) ==
    /\ pc[p] \in Ended
    /\ runs[p] < MaxRuns
    /\ runs' = [runs EXCEPT ![p] = @ + 1]
    /\ pc' = [pc EXCEPT ![p] = "read"]
    /\ out' = [out EXCEPT ![p] = <<>>]
    /\ diedAt' = [diedAt EXCEPT ![p] = "-"]
    /\ didPersist' = [didPersist EXCEPT ![p] = FALSE]
    /\ UNCHANGED <<clock, dirExists, file, tmp, orphans, s1, s2, wake, cold, persisted,
                   call, ret>>

\* _load up to its return or its except clause: read_text, loads, _Snapshot(**json)
LoadRead(p) ==
    /\ pc[p] = "read"
    /\ LET r == LoadOutcome(file) IN
         CASE r.kind = "snapshot" ->
                /\ s1' = [s1 EXCEPT ![p] = r.snap]
                /\ pc' = [pc EXCEPT ![p] = "sleep"]
                /\ UNCHANGED <<tmp, orphans, s2, wake, cold, diedAt>>
           [] r.kind = "except" ->
                /\ pc' = [pc EXCEPT ![p] = "unlink"]
                /\ UNCHANGED <<tmp, orphans, s1, s2, wake, cold, diedAt>>
           [] OTHER -> End(p, "failed", "read")
    /\ UNCHANGED <<clock, dirExists, file, runs, out, didPersist, persisted, call, ret>>

\* the except clause of _load: _path().unlink(missing_ok=True); return None
LoadUnlink(p) ==
    /\ pc[p] = "unlink"
    /\ file' = NoFile
    /\ persisted' = NoSnap
    /\ pc' = [pc EXCEPT ![p] = "snap1"]
    /\ UNCHANGED <<clock, dirExists, tmp, orphans, runs, s1, s2, wake, out, cold, diedAt,
                   didPersist, call, ret>>

\* s1 = ... or _snap(); the OS counters are taken to stand at the clock
Snap1(p) ==
    /\ pc[p] = "snap1"
    /\ s1' = [s1 EXCEPT ![p] = Snap(clock, clock)]
    /\ cold' = [cold EXCEPT ![p] = TRUE]
    /\ pc' = [pc EXCEPT ![p] = "sleep"]
    /\ UNCHANGED <<clock, dirExists, file, tmp, orphans, runs, s2, wake, out, diedAt,
                   didPersist, persisted, call, ret>>

\* max(0, interval - (time() - s1.time))
SleepFull(now, t1) == Interval
SleepCapped(now, t1) == Min(Interval, Max(0, Interval - (now - t1)))
SleepFor(now, t1) == Max(0, Interval - (now - t1))

\* sensors_battery(); sleep(...) begins; time() - s1.time raises TypeError
\* when s1.time is no number
SleepBegin(p) ==
    /\ pc[p] = "sleep"
    /\ IF s1[p].time.t = "num"
       THEN /\ wake' = [wake EXCEPT ![p] = clock + SleepFor(clock, s1[p].time.n)]
            /\ pc' = [pc EXCEPT ![p] = "sleeping"]
            /\ UNCHANGED <<tmp, orphans, s1, s2, cold, diedAt>>
       ELSE End(p, "failed", "sleep")
    /\ UNCHANGED <<clock, dirExists, file, runs, out, didPersist, persisted, call, ret>>

\* sleep(secs) lasts at least secs: it has returned only when the clock
\* has reached the time until which it was to last
SleepCutShort(now, until) == TRUE
SleepOver(now, until) == now >= until

\* sleep returns, not before the requested time has passed
SleepEnd(p) ==
    /\ pc[p] = "sleeping"
    /\ SleepOver(clock, wake[p])
    /\ pc' = [pc EXCEPT ![p] = "snap2"]
    /\ UNCHANGED <<clock, dirExists, file, tmp, orphans, runs, s1, s2, wake, out, cold,
                   diedAt, didPersist, persisted, call, ret>>

\* the Snapshot whose text _states hands to _dump
SavedSnapshotOlder(older, newer) == older
SavedSnapshot(older, newer) == newer

\* s2 = _snap(); json = dumps(asdict(s2), ...)
Snap2(p) ==
    /\ pc[p] = "snap2"
    /\ s2' = [s2 EXCEPT ![p] = Snap(clock, clock)]
    /\ pc' = [pc EXCEPT ![p] = "mkdir"]
    /\ UNCHANGED <<clock, dirExists, file, tmp, orphans, runs, s1, wake, out, cold, diedAt,
                   didPersist, persisted, call, ret>>

\* path.parent.mkdir(parents=True, exist_ok=True)
DumpMkdir(p) ==
    /\ pc[p] = "mkdir"
    /\ dirExists' = TRUE
    /\ pc' = [pc EXCEPT ![p] = "mktemp"]
    /\ UNCHANGED <<clock, file, tmp, orphans, runs, s1, s2, wake, out, cold, diedAt,
                   didPersist, persisted, call, ret>>

\* What opening the file to write does: NamedTemporaryFile creates an empty
\* file of a fresh name beside the session file.
OpenTruncatesTarget(p) ==
    /\ tmp' = [tmp EXCEPT ![p] = <<>>]
    /\ file' = <<>>
OpenForWrite(p) ==
    /\ tmp' = [tmp EXCEPT ![p] = <<>>]
    /\ file' = file

\* NamedTemporaryFile(dir=path.parent, mode="w", delete=False)
DumpMktemp(p) ==
    /\ pc[p] = "mktemp"
    /\ dirExists
    /\ OpenForWrite(p)
    /\ pc' = [pc EXCEPT ![p] = "write"]
    /\ UNCHANGED <<clock, dirExists, orphans, runs, s1, s2, wake, out, cold, diedAt,
                   didPersist, persisted, call, ret>>

\* Where fd.write puts the text: into the temp file.
WriteInPlace(p, data) ==
    /\ file' = data
    /\ tmp' = tmp
WriteTo(p, data) ==
    /\ tmp' = [tmp EXCEPT ![p] = data]
    /\ file' = file

\* fd.write(thing) and the close of the with block: the text reaches the
\* temp file in one piece ("write" to "rename") or in two (through "writing")
DumpWrite(p) ==
    /\ pc[p] \in {"write", "writing"}
    /\ LET thing == Dumps(SavedSnapshot(s1[p], s2[p]))
           half == SubSeq(thing, 1, Len(thing) \div 2)
       IN \/ /\ pc[p] = "write"
             /\ WriteTo(p, half)
             /\ pc' = [pc EXCEPT ![p] = "writing"]
          \/ /\ WriteTo(p, thing)
             /\ pc' = [pc EXCEPT ![p] = "rename"]
    /\ UNCHANGED <<clock, dirExists, orphans, runs, s1, s2, wake, out, cold, diedAt,
                   didPersist, persisted, call, ret>>

\* Path(fd.name).replace(path)
DumpRename(p) ==
    /\ pc[p] = "rename"
    /\ file' = tmp[p]
    /\ tmp' = [tmp EXCEPT ![p] = NoFile]
    /\ didPersist' = [didPersist EXCEPT ![p] = TRUE]
    /\ persisted' = SavedSnapshot(s1[p], s2[p])
    /\ pc' = [pc EXCEPT ![p] = "present"]
    /\ UNCHANGED <<clock, dirExists, orphans, runs, s1, s2, wake, out, cold, diedAt,
                   call, ret>>

\* the segments _stat_lines yields, in order
Segments(ssh, battery) ==
    (IF ssh THEN <<"SSH">> ELSE <<>>) \o <<"net", "disk", "cpu", "mem">>
    \o (IF battery THEN <<"|", "battery">> ELSE <<>>)

\* _measure, the formatting, and stdout.writelines: nothing is yielded
\* before _measure and the formatting have returned.  The results of _ssh
\* and sensors_battery, taken earlier, are used only here and drawn here.
Present(p) ==
    /\ pc[p] = "present"
    /\ LET m == Measure(s1[p], s2[p], MemReading, TRUE) IN
         IF m.err = "none"
         THEN /\ \E ssh \in BOOLEAN, battery \in BOOLEAN :
                   out' = [out EXCEPT ![p] = Segments(ssh, battery)]
              /\ End(p, "done", "-")
         ELSE /\ End(p, "failed", "present")
              /\ UNCHANGED out
    /\ UNCHANGED <<clock, dirExists, file, runs, didPersist, persisted, call, ret>>

\* Where an exception raised inside _dump leaves the invocation: nothing
\* catches it, so the invocation fails.
AfterDumpErrorSwallowed == "present"
AfterDumpError == "failed"

\* psutil or the file system raises: the exception leaves main
Raise(p) ==
    /\ pc[p] \in RaisePoints
    /\ IF pc[p] \in DumpSteps /\ AfterDumpError # "failed"
       THEN /\ pc' = [pc EXCEPT ![p] = AfterDumpError]
            /\ UNCHANGED <<tmp, orphans, s1, s2, wake, cold, diedAt>>
       ELSE End(p, "failed", pc[p])
    /\ UNCHANGED <<clock, dirExists, file, runs, out, didPersist, persisted, call, ret>>

\* the invocation is killed from outside
Kill(p) ==
    /\ pc[p] \notin Ended
    /\ End(p, "killed", pc[p])
    /\ UNCHANGED <<clock, dirExists, file, runs, out, didPersist, persisted, call, ret>>

\* the wall clock advances
Tick ==
    /\ clock < MaxTime
    /\ clock' = clock + 1
    /\ UNCHANGED <<dirExists, file, tmp, orphans, pc, runs, s1, s2, wake, out, cold,
                   diedAt, didPersist, persisted, call, ret>>

Step(p) ==
    \/ LoadRead(p)
    \/ LoadUnlink(p)
    \/ Snap1(p)
    \/ SleepBegin(p)
    \/ SleepEnd(p)
    \/ Snap2(p)
    \/ DumpMkdir(p)
    \/ DumpMktemp(p)
    \/ DumpWrite(p)
    \/ DumpRename(p)
    \/ Present(p)
    \/ Raise(p)
    \/ Kill(p)

\* invocations of one session that may overlap
Next == Tick \/ \E p \in Procs : Start(p) \/ Step(p)

Spec == Init /\ [][Next]_vars

\* an invocation starts only when no other is running
StartAlone(p) ==
    /\ \A q \in Procs \ {p} : pc[q] \in Ended
    /\ Start(p)

NextSeq == Tick \/ \E p \in Procs : StartAlone(p) \/ Step(p)

\* non-overlapping invocations, from any state file
SpecSeq == InitAny /\ [][NextSeq]_vars

(***************************************************************************)
(* save(s) followed at once by load(): process 1 runs _dump on a Snapshot  *)
(* drawn from SnapInputs, then process 2 runs _load; nothing else runs.    *)
(***************************************************************************)
Counters == 0..MaxCounter
Stamps == 0..MaxStamp

\* cpu_times mappings: none, one and several keys, a key that is also a
\* field name, the empty key
CpuInputs ==
    {Obj(<<>>),
     Obj(<<Item("idle", Num(MaxCounter))>>),
     Obj(<<Item("user", Num(0)), Item("idle", Num(MaxCounter)), Item("time", Num(0))>>),
     Obj(<<Item("", Num(MaxCounter)), Item("guest", Num(0))>>)}

SnapInputs ==
    {Snapshot(Num(t), c, Num(dr), Num(dw), Num(ns), Num(nr)) :
        t \in Stamps, c \in CpuInputs, dr \in Counters, dw \in Counters,
        ns \in Counters, nr \in Counters}

InitStore ==
    /\ FsInit({NoFile, ValidFile})
    /\ \E s \in SnapInputs :
         ProcInit([p \in Procs |-> IF p = 1 THEN "mkdir" ELSE "idle"],
                  [p \in Procs |-> IF p = 1 THEN s ELSE NoSnap])
    /\ HarnessIdle

LoadAfterSave ==
    /\ pc[1] = "present"
    /\ Start(2) \/ LoadRead(2)

NextStore ==
    \/ DumpMkdir(1)
    \/ DumpMktemp(1)
    \/ DumpWrite(1)
    \/ DumpRename(1)
    \/ LoadAfterSave

SpecStore == InitStore /\ [][NextStore]_vars

(***************************************************************************)
(* _measure on Snapshot pairs drawn from bounded sets.                     *)
(***************************************************************************)
\* the cpu_times of the older and the newer Snapshot: counters that grew,
\* and counters that fell back (a reset)
CpuPairs ==
    {[a |-> CpuReading(0), b |-> CpuReading(MaxCounter)],
     [a |-> CpuReading(MaxCounter), b |-> CpuReading(0)]}

MeasureCalls ==
    {[fn |-> "_measure",
      s1 |-> Snapshot(Num(t1), c.a, Num(dr1), Num(dw1), Num(ns1), Num(nr1)),
      s2 |-> Snapshot(Num(t2), c.b, Num(dr2), Num(dw2), Num(ns2), Num(nr2)),
      mem |-> MemReading,
      linux |-> l] :
        t1 \in Stamps, t2 \in Stamps, c \in CpuPairs, l \in BOOLEAN,
        dr1 \in Counters, dw1 \in Counters, ns1 \in Counters, nr1 \in Counters,
        dr2 \in {0, MaxCounter}, dw2 \in {0, MaxCounter},
        ns2 \in {0, MaxCounter}, nr2 \in {0, MaxCounter}}

InitMeasure == ProtoInit({NoFile}) /\ call \in MeasureCalls /\ ret = NoRet

CallMeasure ==
    /\ call.fn = "_measure"
    /\ ret.fn = "none"
    /\ LET m == Measure(call.s1, call.s2, call.mem, call.linux) IN
         ret' = [fn |-> "_measure", err |-> m.err, stats |-> m.stats]
    /\ UNCHANGED <<protoVars, call>>

SpecMeasure == InitMeasure /\ [][CallMeasure]_vars

(***************************************************************************)
(* _cpu on the deltas of two cpu_times readings of one platform: the       *)
(* platform decides which modes there are, the readings their values.      *)
(***************************************************************************)
CpuModes == <<"user", "idle", "iowait", "guest">>

\* a reading with the modes of `modes` at the values v
CpuTimes(modes, v) ==
    Obj(SelectSeq([i \in 1..Len(CpuModes) |-> Item(CpuModes[i], Num(v[i]))],
                  LAMBDA it : it.k \in modes))

CpuCalls ==
    {[fn |-> "_cpu", a |-> CpuTimes(modes \cup {"user"}, v1),
      b |-> CpuTimes(modes \cup {"user"}, v2), linux |-> l] :
        modes \in SUBSET {"idle", "iowait", "guest"},
        v1 \in [1..Len(CpuModes) -> Counters], v2 \in [1..Len(CpuModes) -> Counters],
        l \in BOOLEAN}

InitCpu == ProtoInit({NoFile}) /\ call \in CpuCalls /\ ret = NoRet

\* cpu_delta of _measure, then _cpu(cpu_delta)
CallCpu ==
    /\ call.fn = "_cpu"
    /\ ret.fn = "none"
    /\ LET r == Cpu(CpuDelta(call.a.m, call.b.m), call.linux) IN
         ret' = [fn |-> "_cpu", err |-> r.err, v |-> r.v]
    /\ UNCHANGED <<protoVars, call>>

SpecCpu == InitCpu /\ [][CallCpu]_vars

(***************************************************************************)
(* _path on pairs of TMUX values.  A string is the sequence of its         *)
(* characters; the suffix ".json" is one element.                          *)
(***************************************************************************)
\* os.sep
sep == "/"

PathChars == {"a", sep, "|", ".", ","}

EnvValues == UNION {[1..n -> PathChars] : n \in 0..MaxLen}

\* environ["TMUX"].partition(",")[0]
Mux(env) ==
    LET commas == {i \in 1..Len(env) : env[i] = ","} IN
    IF commas = {} THEN env
    ELSE SubSeq(env, 1, (CHOOSE i \in commas : \A j \in commas : i <= j) - 1)

\* mux.replace(sep, "|")
ReplaceSep(s) == [i \in 1..Len(s) |-> IF s[i] = sep THEN "|" ELSE s[i]]

\* PurePath.with_suffix(".json") on the final component: its suffix starts
\* at the last dot, unless that dot is the first or the last character
WithSuffix(name) ==
    LET dots == {i \in 1..Len(name) : name[i] = "."}
        j == IF dots = {} THEN 0 ELSE CHOOSE i \in dots : \A k \in dots : k <= i
    IN IF 1 < j /\ j < Len(name)
       THEN SubSeq(name, 1, j - 1) \o <<".json">>
       ELSE name \o <<".json">>

\* _path: Path(gettempdir()) / "tmux-status-line" / name; pathlib drops an
\* empty or "." component, so the directory itself is then the final component
PathOf(env) ==
    LET name == ReplaceSep(Mux(env)) IN
    IF name \in {<<>>, <<".">>}
    THEN [dir |-> <<"tmp">>, name |-> WithSuffix(<<"tmux-status-line">>)]
    ELSE [dir |-> <<"tmp", "tmux-status-line">>, name |-> WithSuffix(name)]

PathCalls == {[fn |-> "_path", a |-> x, b |-> y] : x \in EnvValues, y \in EnvValues}

InitPath == ProtoInit({NoFile}) /\ call \in PathCalls /\ ret = NoRet

CallPath ==
    /\ call.fn = "_path"
    /\ ret.fn = "none"
    /\ ret' = [fn |-> "_path", a |-> PathOf(call.a), b |-> PathOf(call.b)]
    /\ UNCHANGED <<protoVars, call>>

SpecPath == InitPath /\ [][CallPath]_vars

(***************************************************************************)
(* _colour on thresholds and values drawn from tenths, called as           *)
(* _stat_lines calls it: once for the CPU and once for the memory value.   *)
(***************************************************************************)
RatLt(a, b) == a.num * b.den < b.num * a.den

Tenths == {Rat(k, 10) : k \in 0..MaxTenths}

\* the _Colours of main: the four --colour-* arguments
Colours == [lo |-> "green", md |-> "yellow", hi |-> "red", tr |-> "#[bg=default]"]

\* the comparison of _colour: val < bound
BelowOrAt(val, bound) == ~RatLt(bound, val)
Below(val, bound) == RatLt(val, bound)

\* _colour: the pieces of f"#[bg={colour}]{text}{colours.tr}"
Colour(lo, hi, val, text, colours) ==
    LET c == IF Below(val, lo) THEN colours.lo
             ELSE IF Below(val, hi) THEN colours.md
             ELSE colours.hi
    IN <<"#[bg=", c, "]", text, colours.tr>>

ColourCalls ==
    {[fn |-> "_colour", lo |-> lo, hi |-> hi, cpu |-> c, mem |-> m] :
        lo \in Tenths, hi \in Tenths, c \in Tenths, m \in Tenths}

InitColour == ProtoInit({NoFile}) /\ call \in ColourCalls /\ ret = NoRet

\* the two coloured segments of _stat_lines
CallColour ==
    /\ call.fn = "_colour"
    /\ ret.fn = "none"
    /\ ret' = [fn |-> "_colour",
               cpu |-> Colour(call.lo, call.hi, call.cpu, "cpu", Colours),
               mem |-> Colour(call.lo, call.hi, call.mem, "mem", Colours)]
    /\ UNCHANGED <<protoVars, call>>

SpecColour == InitColour /\ [][CallColour]_vars

(***************************************************************************)
(* _human_readable_size.  A size is written in base 1000, so that dividing *)
(* by 10^(3k) moves k digits behind the point:                             *)
(*   neg   the sign                                                        *)
(*   int   the digits 0..999 of the integer part, lowest first, the        *)
(*         highest not 0                                                   *)
(*   frac  the thousandths                                                 *)
(*   rest  what lies below the thousandths, against half a thousandth      *)
(***************************************************************************)
units == <<"", "K", "M", "G", "T", "P", "E", "Z", "Y">>

\* the precisions: 0 is what _stat_lines passes, 3 the default
Precisions == 0..3

RECURSIVE Pow10(_)
Pow10(p) == IF p = 0 THEN 1 ELSE 10 * Pow10(p - 1)

\* the digit d, followed by more or not, against one half
Against(d, more) ==
    IF d = 0 /\ ~more THEN "zero"
    ELSE IF d < 500 THEN "below"
    ELSE IF d = 500 /\ ~more THEN "half"
    ELSE "above"

\* divided = size / factor for factor = 10^(3k)
Divided(size, k) ==
    IF k = 0 THEN size
    ELSE LET all == <<size.frac>> \o size.int
             n == Len(all)
             Dig(j) == IF j <= n THEN all[j] ELSE 0
             more == size.rest # "zero" \/ \E j \in 1..(k - 1) : Dig(j) # 0
         IN [neg |-> size.neg,
             int |-> IF k + 2 <= n THEN SubSeq(all, k + 2, n) ELSE <<>>,
             frac |-> Dig(k + 1),
             rest |-> Against(Dig(k), more)]

\* abs(divided) < 1000
AtMost1000(d) ==
    Len(d.int) <= 1 \/ (d.int = <<0, 1>> /\ d.frac = 0 /\ d.rest = "zero")
Below1000(d) == Len(d.int) <= 1

\* round(divided, precision) for abs(divided) < 1000, as a count of
\* 10^-precision: to the nearest, a tie to the even count
Truncated(d, precision) ==
    (IF d.int = <<>> THEN 0 ELSE d.int[1]) * Pow10(precision)
    + d.frac \div Pow10(3 - precision)
Rounded(d, precision) ==
    LET m == Pow10(3 - precision)
        q == (IF d.int = <<>> THEN 0 ELSE d.int[1]) * Pow10(precision) + d.frac \div m
        r == d.frac % m
        up == IF m = 1
              THEN d.rest = "above" \/ (d.rest = "half" /\ q % 2 = 1)
              ELSE 2 * r > m \/ (2 * r = m /\ (d.rest # "zero" \/ q % 2 = 1))
    IN IF up THEN q + 1 ELSE q

\* locale.str, "%.12g": no trailing zeros behind the point, and no point
\* when nothing is behind it; the text is q / 10^p written in decimal
RECURSIVE FormatFloat(_, _, _)
FormatFloat(neg, q, p) ==
    IF p > 0 /\ q % 10 = 0 THEN FormatFloat(neg, q \div 10, p - 1)
    ELSE [neg |-> neg, q |-> q, p |-> p]

NoText == [neg |-> FALSE, q |-> 0, p |-> 0]

\* the for loop over zip(factors, units), from the k-th unit on, and its
\* else clause
RECURSIVE Ladder(_, _, _)
Ladder(size, precision, k) ==
    IF k > Len(units) THEN [err |-> "ValueError", fmt |-> NoText, unit |-> ""]
    ELSE LET divided == Divided(size, k - 1) IN
         IF Below1000(divided)
         THEN [err |-> "none",
               fmt |-> FormatFloat(divided.neg, Rounded(divided, precision), precision),
               unit |-> units[k]]
         ELSE Ladder(size, precision, k + 1)

HumanReadableSize(size, precision) == Ladder(size, precision, 1)

\* sizes h * 1000^e + l * 1000^(e-1) + rest, of either sign
TopDigits == {1, 2, 999}
NextDigits == {0, 499, 500, 501, 999}
Rests == {"zero", "below", "half", "above"}

MkSize(neg, h, e, l, rest) ==
    [neg |-> neg,
     int |-> IF e = 0 THEN (IF h = 0 THEN <<>> ELSE <<h>>)
             ELSE [i \in 1..(e + 1) |-> IF i = e + 1 THEN h ELSE IF i = e THEN l ELSE 0],
     frac |-> IF e = 0 THEN l ELSE 0,
     rest |-> rest]

SizeInputs ==
    {MkSize(neg, h, e, l, rest) :
        neg \in BOOLEAN, h \in TopDigits, e \in 0..Len(units), l \in NextDigits,
        rest \in Rests}
    \cup {MkSize(neg, 0, 0, l, rest) : neg \in BOOLEAN, l \in NextDigits, rest \in Rests}

SizeCalls ==
    {[fn |-> "_human_readable_size", size |-> x, precision |-> p] :
        x \in SizeInputs, p \in Precisions}

InitSize == ProtoInit({NoFile}) /\ call \in SizeCalls /\ ret = NoRet

CallSize ==
    /\ call.fn = "_human_readable_size"
    /\ ret.fn = "none"
    /\ LET r == HumanReadableSize(call.size, call.precision) IN
         ret' = [fn |-> "_human_readable_size", err |-> r.err, fmt |-> r.fmt,
                 unit |-> r.unit]
    /\ UNCHANGED <<protoVars, call>>

SpecSize == InitSize /\ [][CallSize]_vars

(***************************************************************************)
(* Properties.                                                             *)
(***************************************************************************)
\* the complete texts of the Snapshots _snap can take within the bounds
SnapTexts == {Dumps(Snap(t, t)) : t \in 0..MaxTime}

\* a step of process p
StepOf(p) == pc'[p] # pc[p] \/ tmp'[p] # tmp[p]

\* C1: whenever a load is about to read the session file, with saves of
\* other invocations at any of their steps, the file is absent or holds the
\* complete text of a Snapshot: no read returns a partly written file.
C1_ReadSeesWholeSnapshot ==
    \A p \in Procs : pc[p] = "read" => file = NoFile \/ file \in SnapTexts

\* a reader stands at its read while another invocation has written half
\* of its temp file and a session file exists
C1_Witness ==
    \E p \in Procs, q \in Procs :
        /\ pc[p] = "read"
        /\ pc[q] = "writing"
        /\ tmp[q] # <<>> /\ tmp[q] # Dumps(s2[q])
        /\ file # NoFile

\* C2: a step of an invocation that is sleeping, sampling or saving,
\* its kill included, leaves the session file as it was, except the completed
\* rename, which makes it the complete text of the new Snapshot.
C2_OnlyRenameChangesFile ==
    [][\A p \in Procs :
          (pc[p] \in {"sleep", "sleeping", "snap2"} \cup DumpSteps /\ StepOf(p))
          => \/ file' = file
             \/ pc[p] = "rename" /\ pc'[p] = "present" /\ file' = Dumps(s2[p])]_vars

\* an invocation was killed with half of its temp file written, and the
\* session file still holds the Snapshot it held before
C2_Witness ==
    \E p \in Procs :
        /\ pc[p] = "killed" /\ diedAt[p] = "writing"
        /\ orphans = 1
        /\ file = ValidFile
        /\ \A q \in Procs \ {p} : pc[q] = "idle"

\* a Snapshot whose fields have the declared types
WellTyped(s) ==
    /\ s.time.t = "num"
    /\ s.cpu_times.t = "obj" /\ AllNum(s.cpu_times.m, Len(s.cpu_times.m))
    /\ \A f \in {"disk_read", "disk_write", "net_sent", "net_recv"} : s[f].t = "num"

\* C3: _load never raises; it returns a Snapshot only for a structurally
\* valid file, and after it returned absent the file does not exist.
C3_InvalidFileIsAbsent ==
    \A p \in Procs :
        /\ ~(pc[p] = "failed" /\ diedAt[p] = "read")
        /\ (pc[p] = "sleep" /\ ~cold[p]) => WellTyped(s1[p])
        /\ pc[p] = "snap1" => file = NoFile

\* C4: in non-overlapping invocations, when _states has returned the
\* session file is the text of its newer Snapshot, and the older Snapshot is
\* the persisted one when there is one and a fresh reading only when there is none.
C4_PersistThenReuse ==
    \A p \in Procs :
        /\ pc[p] = "present" => file = Dumps(s2[p]) /\ persisted = s2[p]
        /\ pc[p] \in {"sleep", "sleeping", "snap2"} \cup DumpSteps
           => IF persisted = NoSnap THEN cold[p] ELSE ~cold[p] /\ s1[p] = persisted

\* the second invocation has loaded the Snapshot the first one persisted
C4_Witness ==
    \E p \in Procs :
        /\ pc[p] = "sleep" /\ ~cold[p]
        /\ s1[p].time.t = "num" /\ s1[p].time.n > 0
        /\ \E q \in Procs \ {p} : pc[q] = "done" /\ didPersist[q]

\* C5: _measure of two Snapshots of the same time returns, and every
\* rate of the Stats is 0.
C5_SameTimeIsZero ==
    (ret.fn = "_measure" /\ call.s1.time = call.s2.time)
    => /\ ret.err = "none"
       /\ \A f \in {"cpu", "disk_read", "disk_write", "net_sent", "net_recv"} :
            ret.stats[f].num = 0

RateFields == {"disk_read", "disk_write", "net_sent", "net_recv"}

\* C6: for newer.time > older.time (and cpu_times as psutil reports
\* them, with an idle entry) each disk and net rate is
\* max(0, newer - older) / (newer.time - older.time): never negative, and 0
\* for a counter that decreased, whatever the other counters did.
C6_RatesClamped ==
    (/\ ret.fn = "_measure"
     /\ call.s2.time.n > call.s1.time.n
     /\ "idle" \in Keys(call.s1.cpu_times.m) \cap Keys(call.s2.cpu_times.m))
    => /\ ret.err = "none"
       /\ \A f \in RateFields :
            LET d == call.s2[f].n - call.s1[f].n
                dt == call.s2.time.n - call.s1.time.n
            IN /\ RatEq(ret.stats[f], Rat(IF d > 0 THEN d ELSE 0, dt))
               /\ ret.stats[f].num >= 0 /\ ret.stats[f].den > 0
               /\ d < 0 => ret.stats[f].num = 0

\* over two ticks one counter fell and another grew
C6_Witness ==
    /\ ret.fn = "_measure" /\ ret.err = "none"
    /\ call.s2.time.n - call.s1.time.n = 2
    /\ call.s2.disk_read.n < call.s1.disk_read.n
    /\ call.s2.net_recv.n > call.s1.net_recv.n
    /\ ret.stats.disk_read.num = 0
    /\ ret.stats.net_recv.num > 0

\* C7: once the load that follows a save has run, it has returned a
\* Snapshot equal to the saved one in every field, and the file is in place.
C7_RoundTrip ==
    pc[2] \notin {"idle", "read"}
    => /\ pc[2] = "sleep"
       /\ s1[2] = s2[1]
       /\ file = Dumps(s2[1])

\* a Snapshot with several cpu_times keys and non-zero fields went round
C7_Witness ==
    /\ pc[2] = "sleep"
    /\ Len(s2[1].cpu_times.m) > 1
    /\ s2[1].time.n > 0 /\ s2[1].net_recv.n > 0
    /\ s1[2] = s2[1]

\* C8: two TMUX values with different session identifiers (neither of
\* them empty or ".") get different state file paths.
C8_PathInjective ==
    (/\ ret.fn = "_path"
     /\ Mux(call.a) # Mux(call.b)
     /\ {Mux(call.a), Mux(call.b)} \cap {<<>>, <<".">>} = {})
    => ret.a # ret.b

\* C9: an invocation that wrote anything to stdout has renamed its
\* Snapshot into place and ended well; one that failed wrote nothing.
C9_NoOutputUnlessPersisted ==
    \A p \in Procs :
        /\ out[p] # <<>> => didPersist[p] /\ pc[p] = "done"
        /\ pc[p] = "failed" => out[p] = <<>>
        /\ (diedAt[p] \in DumpSteps /\ pc[p] # "killed") => pc[p] = "failed"

\* the rename raised: the invocation failed and printed nothing
C9_Witness ==
    \E p \in Procs :
        pc[p] = "failed" /\ diedAt[p] = "rename" /\ out[p] = <<>> /\ ~didPersist[p]

\* the age beyond which a persisted Snapshot is stale
StaleAfter == 2 * Interval

C11_MemIsGauge ==
    (ret.fn = "_measure" /\ ret.err = "none")
    => /\ RatEq(ret.stats.mem, Rat(call.mem.total - call.mem.available, call.mem.total))
       /\ 0 <= ret.stats.mem.num * ret.stats.mem.den
       /\ ret.stats.mem.num * ret.stats.mem.den <= ret.stats.mem.den * ret.stats.mem.den

\* the colour of a segment, and its last piece
BandOf(seg) == seg[2]
LastOf(seg) == seg[Len(seg)]

\* C12 as first stated: for all lo, hi and val the low colour is
\* selected iff val < lo, the middle one iff lo <= val < hi and the high one
\* iff val >= hi, for the CPU and the memory segment alike, and each of the
\* two segments ends with the reset token.
C12_HalfOpenBands ==
    ret.fn = "_colour"
    => \A f \in {"cpu", "mem"} :
         LET val == call[f]
             seg == ret[f]
         IN /\ BandOf(seg) = Colours.lo <=> RatLt(val, call.lo)
            /\ BandOf(seg) = Colours.md <=> (~RatLt(val, call.lo) /\ RatLt(val, call.hi))
            /\ BandOf(seg) = Colours.hi <=> ~RatLt(val, call.hi)
            /\ LastOf(seg) = Colours.tr

\* C12, amended: the low colour is selected iff val < lo, the middle
\* one iff lo <= val < hi, and the high one iff val >= lo and val >= hi (which
\* is val >= hi when lo <= hi); each segment depends on its own value only
\* and ends with the reset token.
C12_BandsInOrder ==
    ret.fn = "_colour"
    => \A f \in {"cpu", "mem"} :
         LET val == call[f]
             seg == ret[f]
         IN /\ BandOf(seg) = Colours.lo <=> RatLt(val, call.lo)
            /\ BandOf(seg) = Colours.md <=> (~RatLt(val, call.lo) /\ RatLt(val, call.hi))
            /\ BandOf(seg) = Colours.hi <=> (~RatLt(val, call.lo) /\ ~RatLt(val, call.hi))
            /\ call.lo.num <= call.hi.num
               => (BandOf(seg) = Colours.hi <=> ~RatLt(val, call.hi))
            /\ LastOf(seg) = Colours.tr

\* lo = 0.4, hi = 0.8: the CPU value 0.4 is in the middle band and the
\* memory value 0.8 in the high band
C12_Witness ==
    /\ ret.fn = "_colour"
    /\ call.lo = Rat(4, 10) /\ call.hi = Rat(8, 10)
    /\ call.cpu = Rat(4, 10) /\ call.mem = Rat(8, 10)
    /\ BandOf(ret.cpu) = Colours.md
    /\ BandOf(ret.mem) = Colours.hi

\* the sizes 999, 1000, 1500000
Size999 == MkSize(FALSE, 999, 0, 0, "zero")
Size1000 == MkSize(FALSE, 1, 1, 0, "zero")
Size1500000 == MkSize(FALSE, 1, 2, 500, "zero")

\* twice the distance, in thousandths, from the scaled value d to the count
\* q of 10^-p lies between lo and hi of this record, and is a tie at
\* either end when nothing lies below the thousandths or exactly one half
Nearest(d, q, p) ==
    LET m == Pow10(3 - p)
        v == (IF d.int = <<>> THEN 0 ELSE d.int[1]) * 1000 + d.frac
        x == 2 * q * m - 2 * v
        lo == CASE d.rest = "zero" -> -m
                [] d.rest = "above" -> 2 - m
                [] OTHER -> 1 - m
        hi == IF d.rest \in {"zero", "below"} THEN m ELSE m + 1
    IN /\ lo <= x /\ x <= hi
       /\ (d.rest \in {"zero", "half"} /\ x \in {lo, hi}) => q % 2 = 0

\* C13: the unit is the first of the ladder whose scaled value
\* size / 1000^k is below 1000 in absolute value, which is the number of
\* base-1000 digits of the integer part less one (999 gets no unit, 1000
\* gets K); the result is the scaled value rounded to the precision, with
\* the sign of the size, followed by that unit; and ValueError is raised
\* exactly when the size has more digits than the ladder has units.
C13_UnitLadder ==
    ret.fn = "_human_readable_size"
    => LET n == Len(call.size.int)
           k == Max(1, n)
       IN /\ ret.err \in {"none", "ValueError"}
          /\ ret.err = "ValueError" <=> n > Len(units)
          /\ ret.err = "none"
             => /\ ret.unit = units[k]
                /\ ret.fmt.neg = call.size.neg
                /\ ret.fmt.p <= call.precision
                /\ Nearest(Divided(call.size, k - 1),
                           ret.fmt.q * Pow10(call.precision - ret.fmt.p),
                           call.precision)
          /\ call.size = Size999 => ret.unit = ""
          /\ call.size = Size1000 => ret.unit = "K"

\* 999500 at precision 2: the unit is K and the text is 999.5, the scaled
\* value written without its trailing zero
C13_Witness ==
    /\ ret.fn = "_human_readable_size" /\ ret.err = "none"
    /\ call.size = MkSize(FALSE, 999, 1, 500, "zero")
    /\ call.precision = 2
    /\ ret.unit = "K"
    /\ ret.fmt = [neg |-> FALSE, q |-> 9995, p |-> 1]

\* C14 as first stated: at precision 0, 999 is "999", 1000 is "1K",
\* 1500000 is "1.5M", and a size of 10^24 (the unit Y) or more raises.
C14_AsStated ==
    (ret.fn = "_human_readable_size" /\ call.precision = 0)
    => /\ call.size = Size999
          => ret.fmt = [neg |-> FALSE, q |-> 999, p |-> 0] /\ ret.unit = ""
       /\ call.size = Size1000
          => ret.fmt = [neg |-> FALSE, q |-> 1, p |-> 0] /\ ret.unit = "K"
       /\ call.size = Size1500000
          => ret.fmt = [neg |-> FALSE, q |-> 15, p |-> 1] /\ ret.unit = "M"
       /\ Len(call.size.int) >= Len(units) => ret.err = "ValueError"

\* C14, amended: at precision 0, 999 is "999", 1000 is "1K" and
\* 1500000 is "2M" (1.5 rounded to no decimals, the tie to the even digit);
\* ValueError is raised exactly for sizes of 10^27 or more in absolute
\* value, and a size from 10^24 up to there gets the unit Y.
C14_RoundedToPrecision ==
    (ret.fn = "_human_readable_size" /\ call.precision = 0)
    => /\ call.size = Size999
          => ret.fmt = [neg |-> FALSE, q |-> 999, p |-> 0] /\ ret.unit = ""
       /\ call.size = Size1000
          => ret.fmt = [neg |-> FALSE, q |-> 1, p |-> 0] /\ ret.unit = "K"
       /\ call.size = Size1500000
          => ret.fmt = [neg |-> FALSE, q |-> 2, p |-> 0] /\ ret.unit = "M"
       /\ ret.err = "ValueError" <=> Len(call.size.int) > Len(units)
       /\ Len(call.size.int) = Len(units) => ret.err = "none" /\ ret.unit = "Y"
       /\ ret.err = "none" => ret.fmt.p = 0

\* 1500000 was formatted at precision 0
C14_Witness ==
    /\ ret.fn = "_human_readable_size" /\ ret.err = "none"
    /\ call.size = Size1500000 /\ call.precision = 0
    /\ ret.unit = "M" /\ ret.fmt.q = 2

\* C15: with the clock never running back and a sleep that lasts at
\* least as long as asked, an invocation that has taken its newer Snapshot
\* has newer.time - older.time >= Interval, whether older was loaded or
\* fresh; while it sleeps, the sleep ends no earlier than older.time +
\* Interval, and at once when older is already that old.
C15_AtLeastOneInterval ==
    \A p \in Procs :
        /\ pc[p] \in DumpSteps \cup {"present"}
           => s2[p].time.n - s1[p].time.n >= Interval
        /\ pc[p] = "sleeping"
           => /\ wake[p] >= s1[p].time.n + Interval
              /\ clock >= s1[p].time.n + Interval => wake[p] <= clock

\* an invocation loaded a Snapshot taken after time 0, slept the rest of
\* the interval and took its newer Snapshot exactly one interval later
C15_Witness ==
    \E p \in Procs :
        /\ pc[p] = "present" /\ ~cold[p]
        /\ s1[p].time.n > 0
        /\ s2[p].time.n - s1[p].time.n = Interval

\* the clamped delta of mode k between the two readings of a _cpu call, 0
\* for a mode the platform does not report
ModeDelta(k) ==
    IF k \in Keys(call.a.m)
    THEN Max(0, Get(call.b.m, k).n - Get(call.a.m, k).n)
    ELSE 0

\* C16: _cpu returns busy / total of the clamped deltas, where total
\* is their sum (less guest and guest_nice on Linux) and busy is total less
\* the idle and iowait deltas, each taken as 0 when the mode is missing; it
\* never raises, and returns 0 when total is 0.
C16_IdleOptional ==
    ret.fn = "_cpu"
    => LET total == ModeDelta("user") + ModeDelta("idle") + ModeDelta("iowait")
                    + ModeDelta("guest")
                    - (IF call.linux THEN ModeDelta("guest") + ModeDelta("guest_nice")
                       ELSE 0)
           busy == total - ModeDelta("idle") - ModeDelta("iowait")
       IN /\ ret.err = "none"
          /\ IF total = 0 THEN ret.v.num = 0
             ELSE ret.v.num * total = busy * ret.v.den

\* C17: whatever the session file held at first, no invocation fails
\* because of it (an invocation fails only where the OS or psutil raised), a
\* loaded older Snapshot is well typed, and once an invocation has completed
\* the session file holds a valid Snapshot.
C17_Recovers ==
    \A p \in Procs :
        /\ pc[p] = "failed" => diedAt[p] \in RaisePoints
        /\ (pc[p] \in {"sleep", "sleeping"} /\ ~cold[p]) => WellTyped(s1[p])
        /\ pc[p] = "done"
           => LoadOutcome(file).kind = "snapshot" /\ WellTyped(LoadOutcome(file).snap)

\* C18: the unlink of _load never removes a session file that holds
\* a complete Snapshot, and once a save of a running or finished invocation
\* has completed the session file is present and valid.
C18_UnlinkSparesValidFile ==
    [][/\ \A p \in Procs :
            (pc[p] = "unlink" /\ pc'[p] = "snap1")
            => LoadOutcome(file).kind # "snapshot"
       /\ (\E p \in Procs : didPersist'[p])
          => LoadOutcome(file').kind = "snapshot"]_vars

\* C19 as first stated: every sleep lasts between 0 and Interval.
C19_SleepWithinInterval ==
    [][\A p \in Procs :
          (pc[p] = "sleep" /\ pc'[p] = "sleeping")
          => 0 <= wake'[p] - clock /\ wake'[p] - clock <= Interval]_vars

\* C19, amended: the sleep lasts max(0, Interval - (now - older.time)):
\* between 0 and Interval when older.time is not later than the clock, 0
\* when older is at least Interval old, and Interval plus the lead of
\* older.time over the clock when older.time lies in the future.
C19_SleepGrowsWithLead ==
    [][\A p \in Procs :
          (pc[p] = "sleep" /\ pc'[p] = "sleeping")
          => LET t1 == s1[p].time.n
                 d == wake'[p] - clock
             IN /\ d >= 0
                /\ t1 <= clock => d <= Interval
                /\ clock - t1 >= Interval => d = 0
                /\ t1 > clock => d = Interval + (t1 - clock)]_vars

\* an invocation loaded a Snapshot of a future time and sleeps longer than
\* one interval
C19_Witness ==
    \E p \in Procs :
        /\ pc[p] = "sleeping" /\ ~cold[p]
        /\ s1[p].time.n > clock
        /\ wake[p] > clock + Interval

\* C20: the state directory holds no temp file of an invocation that
\* has ended: each temp file was renamed over the session file or removed.
C20_NoLeftoverTemp ==
    /\ orphans = 0
    /\ \A p \in Procs : pc[p] \in Ended => tmp[p] = NoFile

====
